---- MODULE Spec2Model ----
(***************************************************************************)
(* Model of efiboots.py: the EFIStore edit model (refresh / reorder, the   *)
(* staged-edit handlers, pending_changes, the command plan __str__ and     *)
(* apply_changes) together with the EFIWindow handlers that drive it.      *)
(* parse_efibootmgr is modelled line by line in a specification of its     *)
(* own, ParseSpec; Spec takes the parsed output as a whole (Snapshots).    *)
(*                                                                         *)
(* Boot numbers are tagged values: Boot(n) is the hex number printed by    *)
(* efibootmgr, NewNum(n) is the string "NEW{:d}".format(n), None is        *)
(* Python's None.  The hex pattern [0-9A-F]+ never starts with "NEW", so   *)
(* num.startswith('NEW') is the test of the tag.                           *)
(* The display-only columns of a row (current, name, path, parameters)     *)
(* are left out: no handler reads them.                                    *)
(***************************************************************************)
EXTENDS Integers, Sequences, FiniteSets, TLC

VARIABLES rows, boot_order, boot_order_initial, aliased,
          boot_next, boot_next_initial, boot_active, boot_inactive,
          boot_add, boot_remove, timeout, timeout_initial,
          spin, new_order, nvram, executor_ran, lastOp, raised, shown,
          boot, line_index, parsed_efi, parse_raised

storeVars == <<rows, boot_order, boot_order_initial, aliased,
               boot_next, boot_next_initial, boot_active, boot_inactive,
               boot_add, boot_remove, timeout, timeout_initial>>

vars == <<rows, boot_order, boot_order_initial, aliased,
          boot_next, boot_next_initial, boot_active, boot_inactive,
          boot_add, boot_remove, timeout, timeout_initial,
          spin, new_order, nvram, executor_ran, lastOp, raised, shown,
          boot, line_index, parsed_efi, parse_raised>>

(* the run of parse_efibootmgr: the lines of the efibootmgr output, the    *)
(* number of lines the for loop has consumed, the dict being filled and    *)
(* the exception that left the function                                    *)
parseVars == <<boot, line_index, parsed_efi, parse_raised>>

(* the window and the store while the output is being parsed *)
appVars == <<rows, boot_order, boot_order_initial, aliased,
             boot_next, boot_next_initial, boot_active, boot_inactive,
             boot_add, boot_remove, timeout, timeout_initial,
             spin, new_order, nvram, executor_ran, lastOp, raised, shown>>

----------------------------------------------------------------------------
(* Bounds *)

MaxBootNum == 2

MaxOrderLen == 2

MaxRows == 2

MaxStaged == 2

MaxLines == 3

(* Program constants: Gtk.SpinButton.new_with_range(0, 999, 1) *)
SpinMin == 0

SpinMax == 999

----------------------------------------------------------------------------
(* Values *)

None == <<"None", 0>>

Boot(n) == <<"Boot", n>>

NewNum(n) == <<"NEW", n>>

StartsWithNEW(num) == num[1] = "NEW"

BootNums == {Boot(n) : n \in 1..MaxBootNum}

Labels == {"A", "B"}

Paths == {"l.efi"}

Parameters == {"p"}

(* Timeout values NVRAM may hold: one inside the spin range, one above it *)
LowTimeout == 5

NvramTimeouts == {LowTimeout, SpinMax + 1}

(* values the user types into the spin button *)
UserTimeouts == {0}

InSeq(x, s) == \E i \in 1..Len(s) : s[i] = x

NoDup(s) == \A i, j \in 1..Len(s) : s[i] = s[j] => i = j

RowNums(rws) == [i \in 1..Len(rws) |-> rws[i].num]

SeqsUpTo(S, n) == UNION {[1..k -> S] : k \in 0..n}

(* parsed_efi['entries']: efibootmgr prints each BootXXXX variable once,    *)
(* in ascending order; the lists explored hold the first k boot numbers    *)
EntryLists ==
    {s \in SeqsUpTo([num : BootNums, active : BOOLEAN], MaxBootNum) :
        \A i \in 1..Len(s) : s[i].num = Boot(i)}

(* parsed_efi as parse_efibootmgr returns it for an output that carries a  *)
(* Timeout line.  BootOrder may repeat ids, may name ids that have no      *)
(* entry and may leave entries out.  Two families are explored: every      *)
(* BootOrder against every set of (active) entries, and every combination  *)
(* of active flags, BootNext and Timeout for the full, consistently        *)
(* ordered entry list.                                                     *)
OrderSnapshots ==
    {[entries |-> e, boot_order |-> o, boot_next |-> None, timeout |-> LowTimeout] :
        e \in {s \in EntryLists : \A i \in 1..Len(s) : s[i].active},
        o \in SeqsUpTo(BootNums, MaxOrderLen)}

FlagSnapshots ==
    {[entries |-> e, boot_order |-> RowNums(e), boot_next |-> n, timeout |-> t] :
        e \in {s \in EntryLists : Len(s) = MaxBootNum /\ s[1].active},
        n \in {Boot(1), None},
        t \in NvramTimeouts}

Snapshots == OrderSnapshots \cup FlagSnapshots

(* what NVRAM is found to hold once the executor has run: the snapshots    *)
(* with the full list of active entries                                    *)
ReadBack ==
    {s \in Snapshots :
        Len(s.entries) = MaxBootNum /\ \A i \in 1..Len(s.entries) : s.entries[i].active}

----------------------------------------------------------------------------
(* The parser.  A line is described by what the parser looks at: its head  *)
(* ("Boot" for a line that efibootmgr_regex matches, one of the four       *)
(* metadata prefixes, "garbage" for any other text), whether it holds a    *)
(* colon, and the tokens that follow the colon: boot numbers, an integer   *)
(* literal IntLit(v), or a word that is neither.                              *)

IntLit(v) == <<"int", v>>

Word == <<"word", 0>>

(* the empty string *)
EmptyStr == <<"str", 0>>

MetaHeads == {"BootOrder", "BootNext", "BootCurrent", "Timeout"}

EntryLine(n, a) == [head |-> "Boot", colon |-> FALSE, tokens |-> <<Boot(n)>>, active |-> a]

MetaLine(h, c, toks) == [head |-> h, colon |-> c, tokens |-> toks, active |-> FALSE]

GarbageLine == [head |-> "garbage", colon |-> FALSE, tokens |-> <<>>, active |-> FALSE]

(* the lines explored: two entries, each metadata line well formed, without *)
(* a colon and without a value, a Timeout that is no integer, and garbage  *)
Lines ==
    {EntryLine(1, TRUE), EntryLine(2, FALSE), GarbageLine}
    \cup {MetaLine(h, FALSE, <<>>) : h \in MetaHeads}
    \cup {MetaLine(h, TRUE, <<>>) : h \in MetaHeads}
    \cup {MetaLine("BootOrder", TRUE, <<Boot(2), Boot(1)>>),
          MetaLine("BootNext", TRUE, <<Boot(1)>>),
          MetaLine("BootCurrent", TRUE, <<Boot(2)>>),
          MetaLine("Timeout", TRUE, <<IntLit(LowTimeout), Word>>),
          MetaLine("Timeout", TRUE, <<Word>>)}

(* parsed_efi as parse_efibootmgr initialises it *)
EmptyParsed ==
    [entries |-> <<>>, boot_order |-> <<>>, boot_next |-> None,
     boot_current |-> None, timeout |-> None]

(* parse_efibootmgr_line: the (key, value) it returns or the exception it  *)
(* raises.  line.split(':')[1] raises IndexError on a line without colon,  *)
(* split()[0] raises IndexError when nothing follows the colon, int()      *)
(* raises a ValueError that carries one argument; the ValueError of the    *)
(* last line of the function carries two.                                  *)
parse_efibootmgr_line(line) ==
    CASE line.head = "Boot" ->
             [raised |-> "none", key |-> "entry",
              value |-> [num |-> line.tokens[1], active |-> line.active]]
      [] line.head = "BootOrder" ->
             IF ~line.colon
             THEN [raised |-> "IndexError", key |-> "", value |-> None]
             ELSE [raised |-> "none", key |-> "boot_order",
                   value |-> IF line.tokens = <<>> THEN <<EmptyStr>> ELSE line.tokens]
      [] line.head \in {"BootNext", "BootCurrent"} ->
             IF ~line.colon
             THEN [raised |-> "IndexError", key |-> "", value |-> None]
             ELSE [raised |-> "none",
                   key |-> IF line.head = "BootNext" THEN "boot_next" ELSE "boot_current",
                   value |-> IF line.tokens = <<>> THEN EmptyStr ELSE line.tokens[1]]
      [] line.head = "Timeout" ->
             IF ~line.colon \/ line.tokens = <<>>
             THEN [raised |-> "IndexError", key |-> "", value |-> None]
             ELSE IF line.tokens[1][1] = "int"
                  THEN [raised |-> "none", key |-> "timeout", value |-> line.tokens[1]]
                  ELSE [raised |-> "ValueError(1)", key |-> "", value |-> None]
      [] OTHER -> [raised |-> "ValueError(2)", key |-> "", value |-> None]

----------------------------------------------------------------------------
(* EFIStore.index_num: position of the first row holding num, 0 for None *)
index_num(rws, num) ==
    IF \E i \in 1..Len(rws) : rws[i].num = num
    THEN CHOOSE i \in 1..Len(rws) :
            rws[i].num = num /\ \A j \in 1..(i - 1) : rws[j].num # num
    ELSE 0

(* first loop of reorder: positions of the BootOrder ids that have a row *)
RECURSIVE ReorderListed(_, _)
ReorderListed(rws, order) ==
    IF order = <<>> THEN <<>>
    ELSE LET index == index_num(rws, Head(order))
         IN  (IF index = 0 THEN <<>> ELSE <<index>>)
                \o ReorderListed(rws, Tail(order))

(* second loop of reorder: append every position not yet in new_order *)
RECURSIVE ReorderAppend(_, _, _)
ReorderAppend(n, i, acc) ==
    IF i > n THEN acc
    ELSE ReorderAppend(n, i + 1, IF InSeq(i, acc) THEN acc ELSE Append(acc, i))

reorder_new_order(rws, order) ==
    ReorderAppend(Len(rws), 1, ReorderListed(rws, order))

(* list.remove(x): drops the first occurrence *)
ListRemove(s, x) ==
    LET k == CHOOSE i \in 1..Len(s) : s[i] = x /\ \A j \in 1..(i - 1) : s[j] # x
    IN  [i \in 1..(Len(s) - 1) |-> IF i < k THEN s[i] ELSE s[i + 1]]

RemoveAt(s, k) == [i \in 1..(Len(s) - 1) |-> IF i < k THEN s[i] ELSE s[i + 1]]

SwapAt(s, a, b) ==
    [i \in 1..Len(s) |-> IF i = a THEN s[b] ELSE IF i = b THEN s[a] ELSE s[i]]

(* timeout_spin.set_value: the adjustment clamps to its range *)
Clamp(v) == IF v < SpinMin THEN SpinMin ELSE IF v > SpinMax THEN SpinMax ELSE v

----------------------------------------------------------------------------
(* `if x:` on the value of an or-chain *)
Truthy(v) == v = TRUE

(* pending_changes without the timeout comparison *)
pending_changes_no_timeout ==
    \/ boot_next_initial # boot_next
    \/ boot_order_initial # boot_order
    \/ boot_add # <<>>
    \/ boot_remove # <<>>
    \/ boot_active # <<>>
    \/ boot_inactive # <<>>

(* EFIStore.pending_changes *)
pending_changes ==
    \/ boot_next_initial # boot_next
    \/ boot_order_initial # boot_order
    \/ boot_add # <<>>
    \/ boot_remove # <<>>
    \/ boot_active # <<>>
    \/ boot_inactive # <<>>
    \/ timeout # timeout_initial

(* __str__ with the BootNext block written before the BootOrder block *)
Plan_next_before_order ==
    [i \in 1..Len(boot_remove) |-> [cmd |-> "delete-bootnum", arg |-> boot_remove[i]]]
    \o [i \in 1..Len(boot_add) |->
          [cmd |-> "create", arg |-> <<boot_add[i][2], boot_add[i][3], boot_add[i][4]>>]]
    \o (IF boot_next_initial # boot_next
        THEN (IF boot_next = None
              THEN <<[cmd |-> "delete-bootnext", arg |-> None]>>
              ELSE <<[cmd |-> "bootnext", arg |-> boot_next]>>)
        ELSE <<>>)
    \o (IF boot_order # boot_order_initial
        THEN <<[cmd |-> "bootorder", arg |-> boot_order]>> ELSE <<>>)
    \o [i \in 1..Len(boot_active) |-> [cmd |-> "active", arg |-> boot_active[i]]]
    \o [i \in 1..Len(boot_inactive) |-> [cmd |-> "inactive", arg |-> boot_inactive[i]]]
    \o (IF timeout # timeout_initial
        THEN <<[cmd |-> "timeout", arg |-> timeout]>> ELSE <<>>)

(* EFIStore.__str__: the command lines, in the order they are appended *)
Plan ==
    [i \in 1..Len(boot_remove) |-> [cmd |-> "delete-bootnum", arg |-> boot_remove[i]]]
    \o [i \in 1..Len(boot_add) |->
          [cmd |-> "create", arg |-> <<boot_add[i][2], boot_add[i][3], boot_add[i][4]>>]]
    \o (IF boot_order # boot_order_initial
        THEN <<[cmd |-> "bootorder", arg |-> boot_order]>> ELSE <<>>)
    \o (IF boot_next_initial # boot_next
        THEN (IF boot_next = None
              THEN <<[cmd |-> "delete-bootnext", arg |-> None]>>
              ELSE <<[cmd |-> "bootnext", arg |-> boot_next]>>)
        ELSE <<>>)
    \o [i \in 1..Len(boot_active) |-> [cmd |-> "active", arg |-> boot_active[i]]]
    \o [i \in 1..Len(boot_inactive) |-> [cmd |-> "inactive", arg |-> boot_inactive[i]]]
    \o (IF timeout # timeout_initial
        THEN <<[cmd |-> "timeout", arg |-> timeout]>> ELSE <<>>)

----------------------------------------------------------------------------
(* EFIStore.refresh on the parsed output snap, the spin button showing     *)
(* spinNow: clear(), one row per entry, the fields, set_value on the spin  *)
(* button (its value_changed handler is change_timeout), then reorder().   *)
Refreshed(snap, spinNow) ==
    LET appended == [i \in 1..Len(snap.entries) |->
                        [num    |-> snap.entries[i].num,
                         active |-> snap.entries[i].active,
                         next   |-> snap.entries[i].num = snap.boot_next]]
        order    == reorder_new_order(appended, snap.boot_order)
        ok       == Len(order) = Len(appended)
        shownVal == Clamp(snap.timeout)
    IN  [rows      |-> IF ok THEN [k \in 1..Len(order) |-> appended[order[k]]]
                       ELSE appended,
         new_order |-> order,
         raised    |-> IF ok THEN "none" ELSE "AssertionError",
         spin      |-> shownVal,
         timeout   |-> IF shownVal # spinNow THEN shownVal ELSE snap.timeout]

LoadStore(snap, op) ==
    LET r == Refreshed(snap, spin)
    IN  /\ rows' = r.rows
        /\ new_order' = r.new_order
        /\ raised' = r.raised
        /\ spin' = r.spin
        /\ timeout' = r.timeout
        /\ timeout_initial' = snap.timeout
        /\ boot_order' = snap.boot_order
        /\ boot_order_initial' = snap.boot_order
        /\ aliased' = TRUE
        /\ boot_next' = snap.boot_next
        /\ boot_next_initial' = snap.boot_next
        /\ boot_active' = <<>>
        /\ boot_inactive' = <<>>
        /\ boot_add' = <<>>
        /\ boot_remove' = <<>>
        /\ nvram' = snap
        /\ executor_ran' = FALSE
        /\ lastOp' = op

(* EFIWindow.__init__ ends with self.store.refresh(); the spin button of   *)
(* new_with_range starts at its minimum.  An exception leaves the window   *)
(* unshown.                                                                *)
Init ==
    \E snap \in Snapshots :
        LET r == Refreshed(snap, SpinMin)
        IN  /\ rows = r.rows
            /\ new_order = r.new_order
            /\ raised = r.raised
            /\ shown = (r.raised = "none")
            /\ spin = r.spin
            /\ timeout = r.timeout
            /\ timeout_initial = snap.timeout
            /\ boot_order = snap.boot_order
            /\ boot_order_initial = snap.boot_order
            /\ aliased = TRUE
            /\ boot_next = snap.boot_next
            /\ boot_next_initial = snap.boot_next
            /\ boot_active = <<>>
            /\ boot_inactive = <<>>
            /\ boot_add = <<>>
            /\ boot_remove = <<>>
            /\ nvram = snap
            /\ executor_ran = FALSE
            /\ lastOp = "refresh"
            /\ boot = <<>>
            /\ line_index = 0
            /\ parsed_efi = EmptyParsed
            /\ parse_raised = "none"

(* what run_efibootmgr reads: the content read last time; once the         *)
(* executor has run, that or what the script has made of it                *)
Readable == IF executor_ran THEN ReadBack \cup {nvram} ELSE {nvram}

(* EFIWindow.on_clicked_discard_changes -> EFIStore.refresh *)
on_clicked_discard_changes ==
    /\ shown
    /\ \E snap \in Readable : LoadStore(snap, "refresh")
    /\ UNCHANGED <<shown, parseVars>>

(* number of staged list items; the handlers are cut off at MaxStaged *)
Staged == Len(boot_add) + Len(boot_remove) + Len(boot_active) + Len(boot_inactive)

(* swap that moves the rows and leaves boot_order alone *)
swap_rows_only(a, b) ==
    /\ rows' = SwapAt(rows, a, b)
    /\ UNCHANGED <<boot_order, aliased, boot_order_initial, boot_next,
                   boot_next_initial, boot_active, boot_inactive, boot_add,
                   boot_remove, timeout, timeout_initial>>

(* EFIStore.swap: Gtk swaps the two rows, boot_order is rebuilt from them *)
swap(a, b) ==
    /\ rows' = SwapAt(rows, a, b)
    /\ boot_order' = RowNums(rows')
    /\ aliased' = FALSE
    /\ UNCHANGED <<boot_order_initial, boot_next, boot_next_initial, boot_active,
                   boot_inactive, boot_add, boot_remove, timeout, timeout_initial>>

(* EFIWindow.up on the selected row i: iter_previous exists *)
up(i) ==
    /\ shown
    /\ i \in 1..Len(rows)
    /\ i - 1 >= 1
    /\ swap(i, i - 1)
    /\ lastOp' = "edit"
    /\ raised' = "none"
    /\ UNCHANGED <<spin, new_order, nvram, executor_ran, shown, parseVars>>

(* EFIWindow.down on the selected row i: iter_next exists *)
down(i) ==
    /\ shown
    /\ i \in 1..Len(rows)
    /\ i + 1 <= Len(rows)
    /\ swap(i, i + 1)
    /\ lastOp' = "edit"
    /\ raised' = "none"
    /\ UNCHANGED <<spin, new_order, nvram, executor_ran, shown, parseVars>>

(* EFIStore.add *)
add(label, path, parameters) ==
    LET new_num == NewNum(Len(boot_add))
    IN  /\ rows' = <<[num |-> new_num, active |-> TRUE, next |-> FALSE]>> \o rows
        /\ boot_add' = Append(boot_add, <<new_num, label, path, parameters>>)
        /\ UNCHANGED <<boot_order, boot_order_initial, aliased, boot_next,
                       boot_next_initial, boot_active, boot_inactive, boot_remove,
                       timeout, timeout_initial>>

(* EFIWindow.new, answered OK (the OK button needs a non-empty label) *)
new ==
    /\ shown
    /\ Len(rows) < MaxRows
    /\ Staged < MaxStaged
    /\ \E label \in Labels, path \in Paths, parameters \in Parameters :
          add(label, path, parameters)
    /\ lastOp' = "edit"
    /\ raised' = "none"
    /\ UNCHANGED <<spin, new_order, nvram, executor_ran, shown, parseVars>>

(* the loop of EFIStore.remove over the rows k..Len(rows) that hold num:   *)
(* append to boot_remove, then boot_order.remove(num), which raises        *)
(* ValueError when num is not in boot_order                                *)
RECURSIVE RemoveLoop(_, _, _, _)
RemoveLoop(k, num, rem, ord) ==
    IF k > Len(rows) THEN [rem |-> rem, ord |-> ord, raised |-> "none"]
    ELSE IF rows[k].num # num THEN RemoveLoop(k + 1, num, rem, ord)
    ELSE IF ~InSeq(num, ord)
         THEN [rem |-> Append(rem, num), ord |-> ord, raised |-> "ValueError"]
         ELSE RemoveLoop(k + 1, num, Append(rem, num), ListRemove(ord, num))

(* EFIStore.remove of row i; boot_order.remove() mutates the list object,  *)
(* which is boot_order_initial too until swap rebinds boot_order           *)
remove(i) ==
    LET num == rows[i].num
        r   == RemoveLoop(1, num, boot_remove, boot_order)
    IN  IF StartsWithNEW(num)
        THEN /\ boot_add' = SelectSeq(boot_add, LAMBDA entry : entry[1] # num)
             /\ rows' = RemoveAt(rows, i)
             /\ raised' = "none"
             /\ UNCHANGED <<boot_order, boot_order_initial, boot_remove>>
        ELSE /\ boot_remove' = r.rem
             /\ boot_order' = r.ord
             /\ boot_order_initial' = IF aliased THEN r.ord ELSE boot_order_initial
             /\ raised' = r.raised
             /\ rows' = IF r.raised = "none" THEN RemoveAt(rows, i) ELSE rows
             /\ UNCHANGED boot_add

(* EFIWindow.delete on the selected row i *)
delete(i) ==
    /\ shown
    /\ i \in 1..Len(rows)
    /\ IF StartsWithNEW(rows[i].num) THEN TRUE ELSE Staged < MaxStaged
    /\ remove(i)
    /\ lastOp' = "edit"
    /\ UNCHANGED <<aliased, boot_next, boot_next_initial, boot_active, boot_inactive,
                   timeout, timeout_initial, spin, new_order, nvram, executor_ran,
                   shown, parseVars>>

(* change_active that appends to the list of the new flag without looking  *)
(* at the list of the old one                                              *)
change_active_always_append(rws, active, inactive, i) ==
    LET num == rws[i].num
        now == ~rws[i].active
    IN  [rows          |-> [rws EXCEPT ![i].active = now],
         boot_active   |-> IF now THEN Append(active, num) ELSE active,
         boot_inactive |-> IF now THEN inactive ELSE Append(inactive, num)]

(* change_active that stages the flip after unstaging the opposite one     *)
(* (the two else branches run unconditionally)                             *)
change_active_no_else(rws, active, inactive, i) ==
    LET num == rws[i].num
        now == ~rws[i].active
    IN  [rows          |-> [rws EXCEPT ![i].active = now],
         boot_active   |-> IF now THEN Append(active, num)
                           ELSE (IF InSeq(num, active) THEN ListRemove(active, num)
                                 ELSE active),
         boot_inactive |-> IF now
                           THEN (IF InSeq(num, inactive) THEN ListRemove(inactive, num)
                                 ELSE inactive)
                           ELSE Append(inactive, num)]

(* the body of EFIStore.change_active for the row at position i: the rows, *)
(* boot_active and boot_inactive it leaves                                 *)
change_active_result(rws, active, inactive, i) ==
    LET num == rws[i].num
        now == ~rws[i].active
    IN  [rows          |-> [rws EXCEPT ![i].active = now],
         boot_active   |-> IF now
                           THEN (IF InSeq(num, inactive) THEN active
                                 ELSE Append(active, num))
                           ELSE (IF InSeq(num, active) THEN ListRemove(active, num)
                                 ELSE active),
         boot_inactive |-> IF now
                           THEN (IF InSeq(num, inactive) THEN ListRemove(inactive, num)
                                 ELSE inactive)
                           ELSE (IF InSeq(num, active) THEN inactive
                                 ELSE Append(inactive, num))]

(* EFIStore.change_active on row i *)
change_active(i) ==
    /\ shown
    /\ i \in 1..Len(rows)
    /\ IF InSeq(rows[i].num, IF ~rows[i].active THEN boot_inactive ELSE boot_active)
       THEN TRUE
       ELSE Staged < MaxStaged
    /\ LET r == change_active_result(rows, boot_active, boot_inactive, i)
       IN  /\ rows' = r.rows
           /\ boot_active' = r.boot_active
           /\ boot_inactive' = r.boot_inactive
    /\ lastOp' = "edit"
    /\ raised' = "none"
    /\ UNCHANGED <<boot_order, boot_order_initial, aliased, boot_next,
                   boot_next_initial, boot_add, boot_remove, timeout,
                   timeout_initial, spin, new_order, nvram, executor_ran, shown, parseVars>>

(* change_boot_next that leaves the flag of the other rows alone *)
change_boot_next_keep_others(i) ==
    /\ shown
    /\ i \in 1..Len(rows)
    /\ rows' = [rows EXCEPT ![i].next = ~rows[i].next]
    /\ boot_next' = IF rows'[i].next THEN rows[i].num ELSE None
    /\ lastOp' = "edit"
    /\ raised' = "none"
    /\ UNCHANGED <<boot_order, boot_order_initial, aliased, boot_next_initial,
                   boot_active, boot_inactive, boot_add, boot_remove, timeout,
                   timeout_initial, spin, new_order, nvram, executor_ran, shown, parseVars>>

(* EFIStore.change_boot_next on row i *)
change_boot_next(i) ==
    /\ shown
    /\ i \in 1..Len(rows)
    /\ rows' = [j \in 1..Len(rows) |->
                  IF j = i THEN [rows[j] EXCEPT !.next = ~rows[j].next]
                  ELSE [rows[j] EXCEPT !.next = FALSE]]
    /\ boot_next' = IF rows'[i].next THEN rows[i].num ELSE None
    /\ lastOp' = "edit"
    /\ raised' = "none"
    /\ UNCHANGED <<boot_order, boot_order_initial, aliased, boot_next_initial,
                   boot_active, boot_inactive, boot_add, boot_remove, timeout,
                   timeout_initial, spin, new_order, nvram, executor_ran, shown, parseVars>>

(* EFIStore.change_timeout: value_changed of the spin button, typed by the user *)
change_timeout(v) ==
    /\ shown
    /\ v # spin
    /\ spin' = v
    /\ timeout' = v
    /\ lastOp' = "edit"
    /\ raised' = "none"
    /\ UNCHANGED <<rows, boot_order, boot_order_initial, aliased, boot_next,
                   boot_next_initial, boot_active, boot_inactive, boot_add,
                   boot_remove, timeout_initial, new_order, nvram, executor_ran,
                   shown, parseVars>>

(* apply_changes that runs the executor and skips the refresh *)
apply_changes_no_refresh ==
    /\ shown
    /\ Truthy(pending_changes)
    /\ nvram' \in ReadBack
    /\ executor_ran' = FALSE
    /\ lastOp' = "apply_changes"
    /\ raised' = "none"
    /\ UNCHANGED <<storeVars, spin, new_order, shown, parseVars>>

(* EFIWindow.apply_changes answered YES, EFIStore.apply_changes: the       *)
(* executor succeeds, then refresh() reads what NVRAM holds now            *)
apply_changes ==
    /\ shown
    /\ Truthy(pending_changes)
    /\ \E snap \in ReadBack : LoadStore(snap, "apply_changes")
    /\ UNCHANGED <<shown, parseVars>>

(* a failure branch that refreshes the store *)
apply_changes_failed_refreshing ==
    /\ shown
    /\ Truthy(pending_changes)
    /\ \E snap \in ReadBack : LoadStore(snap, lastOp)
    /\ UNCHANGED <<shown, parseVars>>

(* EFIStore.apply_changes, subprocess.run raises CalledProcessError: only  *)
(* the error dialog follows; the script may have written part of the plan  *)
apply_changes_failed ==
    /\ shown
    /\ Truthy(pending_changes)
    /\ executor_ran' = TRUE
    /\ raised' = "none"
    /\ UNCHANGED <<storeVars, spin, new_order, nvram, lastOp, shown, parseVars>>

Next ==
    \/ on_clicked_discard_changes
    \/ \E i \in 1..MaxRows : up(i)
    \/ \E i \in 1..MaxRows : down(i)
    \/ new
    \/ \E i \in 1..MaxRows : delete(i)
    \/ \E i \in 1..MaxRows : change_active(i)
    \/ \E i \in 1..MaxRows : change_boot_next(i)
    \/ \E v \in UserTimeouts : change_timeout(v)
    \/ apply_changes
    \/ apply_changes_failed

Spec == Init /\ [][Next]_vars

----------------------------------------------------------------------------
(* parse_efibootmgr on its own: refresh has called clear() and run         *)
(* efibootmgr, the for loop goes over the lines of the output.             *)

(* the store as clear() leaves it, in a window that is not shown yet *)
Cleared ==
    /\ rows = <<>>
    /\ boot_order = <<>>
    /\ boot_order_initial = <<>>
    /\ aliased = FALSE
    /\ boot_next = None
    /\ boot_next_initial = None
    /\ boot_active = <<>>
    /\ boot_inactive = <<>>
    /\ boot_add = <<>>
    /\ boot_remove = <<>>
    /\ timeout = None
    /\ timeout_initial = None
    /\ spin = SpinMin
    /\ new_order = <<>>
    /\ nvram = [entries |-> <<>>, boot_order |-> <<>>, boot_next |-> None,
                timeout |-> None]
    /\ executor_ran = FALSE
    /\ lastOp = "refresh"
    /\ raised = "none"
    /\ shown = FALSE

ParseInit ==
    /\ Cleared
    /\ boot \in SeqsUpTo(Lines, MaxLines)
    /\ line_index = 0
    /\ parsed_efi = EmptyParsed
    /\ parse_raised = "none"

(* one iteration of the for loop of parse_efibootmgr: the ValueError of    *)
(* parse_efibootmgr_line is caught and logged with e.args[1], which a      *)
(* ValueError with one argument does not have (IndexError in the handler); *)
(* an IndexError is not caught                                             *)
parse_efibootmgr ==
    /\ parse_raised = "none"
    /\ line_index < Len(boot)
    /\ LET r == parse_efibootmgr_line(boot[line_index + 1])
       IN  /\ parsed_efi' =
                 CASE r.raised # "none" -> parsed_efi
                   [] r.key = "entry" ->
                        [parsed_efi EXCEPT !.entries = Append(@, r.value)]
                   [] r.key = "boot_order" -> [parsed_efi EXCEPT !.boot_order = r.value]
                   [] r.key = "boot_next" -> [parsed_efi EXCEPT !.boot_next = r.value]
                   [] r.key = "boot_current" ->
                        [parsed_efi EXCEPT !.boot_current = r.value]
                   [] r.key = "timeout" -> [parsed_efi EXCEPT !.timeout = r.value]
           /\ parse_raised' =
                 IF r.raised \in {"none", "ValueError(2)"} THEN "none" ELSE "IndexError"
    /\ line_index' = line_index + 1
    /\ UNCHANGED <<boot, appVars>>

ParseNext == parse_efibootmgr

ParseSpec == ParseInit /\ [][ParseNext]_vars

----------------------------------------------------------------------------
(* Claims *)

Rank(cmd) ==
    CASE cmd = "delete-bootnum" -> 1
      [] cmd = "create" -> 2
      [] cmd = "bootorder" -> 3
      [] cmd \in {"bootnext", "delete-bootnext"} -> 4
      [] cmd = "active" -> 5
      [] cmd = "inactive" -> 6
      [] cmd = "timeout" -> 7

LinesOf(p, cmds) == SelectSeq(p, LAMBDA l : l.cmd \in cmds)

Args(p) == [i \in 1..Len(p) |-> p[i].arg]

AfterRefresh == lastOp \in {"refresh", "apply_changes"}

(* C1: the plan lists its delete lines (one per staged removal, in staging *)
(* order), then its create lines (one per staged addition, in staging      *)
(* order), then at most one bootorder line, at most one bootnext or        *)
(* delete-bootnext line, the active lines, the inactive lines and at most  *)
(* one timeout line; no line of a later group precedes one of an earlier.  *)
C1_PlanOrder ==
    LET p == Plan
    IN  /\ \A i, j \in 1..Len(p) : i < j => Rank(p[i].cmd) <= Rank(p[j].cmd)
        /\ Len(LinesOf(p, {"bootorder"})) <= 1
        /\ Len(LinesOf(p, {"bootnext", "delete-bootnext"})) <= 1
        /\ Len(LinesOf(p, {"timeout"})) <= 1
        /\ Args(LinesOf(p, {"delete-bootnum"})) = boot_remove
        /\ Args(LinesOf(p, {"create"}))
              = [i \in 1..Len(boot_add) |->
                    <<boot_add[i][2], boot_add[i][3], boot_add[i][4]>>]
        /\ Args(LinesOf(p, {"active"})) = boot_active
        /\ Args(LinesOf(p, {"inactive"})) = boot_inactive

(* a plan with a delete, a create, a bootorder and a bootnext line *)
C1_Witness ==
    /\ boot_remove # <<>>
    /\ boot_add # <<>>
    /\ LinesOf(Plan, {"bootorder"}) # <<>>
    /\ LinesOf(Plan, {"bootnext"}) # <<>>

(* C2: the plan is empty exactly when pending_changes() is false. *)
C2_EmptyPlanIffNothingPending == (Plan = <<>>) <=> ~pending_changes

(* an edited store whose only pending change is the timeout *)
C2_Witness ==
    /\ lastOp = "edit"
    /\ timeout # timeout_initial
    /\ Staged = 0
    /\ boot_order = boot_order_initial
    /\ boot_next = boot_next_initial
    /\ Len(Plan) = 1

(* C3: immediately after refresh() has loaded a snapshot (the refresh of   *)
(* a successful commit included), pending_changes() is false.              *)
C3_CleanAfterRefresh == AfterRefresh => ~pending_changes

(* C4: from a clean state just after refresh, one staged mutation that     *)
(* takes effect (add, remove of a listed entry, toggle of a listed entry,  *)
(* a move away from the boundary, a boot-next toggle, a new timeout)       *)
(* makes pending_changes() true.                                           *)
C4_OneEditIsPending ==
    [][(AfterRefresh /\ ~pending_changes /\ lastOp' = "edit") => pending_changes']_vars

(* a move is the only edit made: nothing staged, boot-next and timeout untouched *)
C4_Witness ==
    /\ lastOp = "edit"
    /\ ~aliased
    /\ Staged = 0
    /\ boot_next = boot_next_initial
    /\ timeout = timeout_initial
    /\ pending_changes

(* C5: after refresh the reconciled order has exactly as many elements as  *)
(* the snapshot has entries: the assertion of reorder never fails.         *)
C5_ReorderAssertion ==
    AfterRefresh => (Len(new_order) = Len(nvram.entries) /\ raised # "AssertionError")

Reconciled(snap) ==
    SelectSeq(snap.boot_order,
              LAMBDA num : \E i \in 1..Len(snap.entries) : snap.entries[i].num = num)
    \o SelectSeq(RowNums(snap.entries), LAMBDA num : ~InSeq(num, snap.boot_order))

(* C6: after refresh the listed order is the BootOrder ids that have an    *)
(* entry, in BootOrder order, followed by the entries absent from          *)
(* BootOrder, in listing order.                                            *)
C6_ListedOrder == AfterRefresh => RowNums(rows) = Reconciled(nvram)

(* C7: when the executor fails the store is left exactly as it was, so     *)
(* the same plan is produced on retry.                                     *)
C7_FailureKeepsStore ==
    [][apply_changes_failed => (UNCHANGED storeVars /\ Plan' = Plan)]_vars

(* a failed commit of a store with staged edits *)
C7_Witness == executor_ran /\ Staged > 0 /\ Plan # <<>>

Mirrors ==
    /\ boot_order_initial = nvram.boot_order
    /\ boot_next_initial = nvram.boot_next
    /\ timeout_initial = nvram.timeout
    /\ {rows[i].num : i \in 1..Len(rows)} = {nvram.entries[i].num : i \in 1..Len(nvram.entries)}
    /\ Len(rows) = Len(nvram.entries)
    /\ Staged = 0

(* C8 as stated: every commit attempt, failed or not, is followed by a     *)
(* refresh: no state is left in which the executor has run and the store   *)
(* (its baseline included) has not been re-derived from a fresh read.      *)
C8_RefreshAfterEveryAttempt == ~executor_ran

(* C8 amended: a successful commit is followed by a refresh, so the store  *)
(* mirrors what NVRAM holds; a failed commit is followed by none, the      *)
(* baseline stays the one loaded before the commit.                        *)
C8_RefreshAfterSuccessOnly ==
    [][/\ apply_changes => (~executor_ran' /\ Mirrors')
       /\ apply_changes_failed =>
             (/\ executor_ran'
              /\ UNCHANGED <<boot_order_initial, boot_next_initial, timeout_initial, nvram>>)]_vars

(* a successful commit has refreshed the store *)
C8_Witness == lastOp = "apply_changes" /\ Len(rows) = MaxBootNum

(* C9: no two rows share an id and no two staged additions share a         *)
(* placeholder id.                                                         *)
C9_FreshPlaceholders ==
    /\ NoDup(RowNums(rows))
    /\ NoDup([i \in 1..Len(boot_add) |-> boot_add[i][1]])

(* C10: a removed boot number is referenced by no other staged edit: no    *)
(* plan holds a delete line for an id and a later bootnext, active or      *)
(* inactive line for the same id.                                          *)
C10_RemovedNotReferenced ==
    \A i \in 1..Len(boot_remove) :
        /\ boot_next # boot_remove[i]
        /\ ~InSeq(boot_remove[i], boot_active)
        /\ ~InSeq(boot_remove[i], boot_inactive)

(* C11: remove() of a placeholder row drops its id from boot_add and from  *)
(* boot_order: after the step the id is in neither, whatever edits (moves  *)
(* included) came before.                                                  *)
C11_PlaceholderRemovedFromOrder ==
    [][\A i \in 1..MaxRows :
          (i \in 1..Len(rows) /\ StartsWithNEW(rows[i].num) /\ delete(i))
             => /\ \A k \in 1..Len(boot_add') : boot_add'[k][1] # rows[i].num
                /\ ~InSeq(rows[i].num, boot_order')]_vars

(* C12: boot_remove, boot_active and boot_inactive hold only boot numbers  *)
(* of entries of the snapshot loaded at the last refresh, never a          *)
(* placeholder id.                                                         *)
C12_StagedIdsAreBaseline ==
    \A num \in {boot_remove[i] : i \in 1..Len(boot_remove)}
               \cup {boot_active[i] : i \in 1..Len(boot_active)}
               \cup {boot_inactive[i] : i \in 1..Len(boot_inactive)} :
        /\ ~StartsWithNEW(num)
        /\ \E k \in 1..Len(nvram.entries) : nvram.entries[k].num = num

(* C13: no id is in boot_active and in boot_inactive at the same time.     *)
C13_ActiveInactiveDisjoint ==
    \A i \in 1..Len(boot_active) : ~InSeq(boot_active[i], boot_inactive)

(* one entry staged for activation, another for deactivation *)
C13_Witness ==
    /\ lastOp = "edit"
    /\ boot_active # <<>>
    /\ boot_inactive # <<>>

Count(s, x) == Cardinality({k \in 1..Len(s) : s[k] = x})

SameItems(s, t) ==
    /\ Len(s) = Len(t)
    /\ \A k \in 1..Len(s) : Count(s, s[k]) = Count(t, s[k])

(* C14: change_active applied twice in a row to the same row restores the  *)
(* staged state: the rows (the active flag included) are as before, and    *)
(* boot_active and boot_inactive hold the same ids as before (the ids are  *)
(* staged as sets: their order in the list is not compared).               *)
C14_DoubleToggleRestores ==
    \A i \in 1..Len(rows) :
        LET once  == change_active_result(rows, boot_active, boot_inactive, i)
            twice == change_active_result(once.rows, once.boot_active,
                                          once.boot_inactive, i)
        IN  /\ twice.rows = rows
            /\ SameItems(twice.boot_active, boot_active)
            /\ SameItems(twice.boot_inactive, boot_inactive)

(* a toggled row whose id is staged first of two deactivations: the second *)
(* toggle takes it out of the list                                         *)
C14_Witness ==
    /\ lastOp = "edit"
    /\ Len(boot_inactive) = 2
    /\ \E i \in 1..Len(rows) :
          ~rows[i].active /\ boot_inactive[1] = rows[i].num

(* C15: at most one row has its next flag set, and the id of a flagged row *)
(* is boot_next.                                                           *)
C15_AtMostOneNext ==
    /\ \A i, j \in 1..Len(rows) : (rows[i].next /\ rows[j].next) => i = j
    /\ \A i \in 1..Len(rows) : rows[i].next => rows[i].num = boot_next

(* the loaded BootNext entry was flagged and another row has been selected *)
C15_Witness ==
    /\ lastOp = "edit"
    /\ nvram.boot_next # None
    /\ Len(rows) = MaxBootNum
    /\ \E i \in 1..Len(rows) : rows[i].next /\ rows[i].num # nvram.boot_next

(* C16: no edit handler changes the baseline (boot_order_initial,          *)
(* boot_next_initial, timeout_initial): only refresh assigns it.           *)
C16_EditsKeepBaseline ==
    [][lastOp' = "edit" =>
          UNCHANGED <<boot_order_initial, boot_next_initial, timeout_initial>>]_vars

(* C18: pending_changes() is true exactly when the listed order differs    *)
(* from the reconciled BootOrder of the loaded snapshot, boot_next or      *)
(* timeout differ from the loaded ones, or something is staged in          *)
(* boot_add, boot_remove, boot_active or boot_inactive (stated for         *)
(* snapshots whose BootOrder repeats no id).                               *)
C18_PendingIffDiffers ==
    NoDup(nvram.boot_order) =>
        (pending_changes <=>
            \/ RowNums(rows) # Reconciled(nvram)
            \/ boot_next # nvram.boot_next
            \/ timeout # nvram.timeout
            \/ Staged > 0)

(* C19: the plan has one bootorder line, listing boot_order, when          *)
(* boot_order differs from the BootOrder loaded at the last refresh, and   *)
(* none otherwise.                                                         *)
C19_BootOrderLine ==
    LinesOf(Plan, {"bootorder"})
        = IF boot_order # nvram.boot_order
          THEN <<[cmd |-> "bootorder", arg |-> boot_order]>>
          ELSE <<>>

(* C20: no bootorder, bootnext, active or inactive line of the plan names  *)
(* a placeholder id.                                                       *)
C20_PlanNamesRealIds ==
    \A k \in 1..Len(Plan) :
        CASE Plan[k].cmd = "bootorder" ->
                 \A j \in 1..Len(Plan[k].arg) : ~StartsWithNEW(Plan[k].arg[j])
          [] Plan[k].cmd \in {"bootnext", "active", "inactive"} ->
                 ~StartsWithNEW(Plan[k].arg)
          [] OTHER -> TRUE

(* a line the parser is meant to extract: an entry line, or a metadata     *)
(* line with a colon and a value of its kind                               *)
ValidLine(line) ==
    CASE line.head = "Boot" -> TRUE
      [] line.head = "BootOrder" ->
             /\ line.colon
             /\ line.tokens # <<>>
             /\ \A k \in 1..Len(line.tokens) : line.tokens[k][1] = "Boot"
      [] line.head \in {"BootNext", "BootCurrent"} ->
             line.colon /\ Len(line.tokens) = 1 /\ line.tokens[1][1] = "Boot"
      [] line.head = "Timeout" ->
             line.colon /\ line.tokens # <<>> /\ line.tokens[1][1] = "int"
      [] OTHER -> FALSE

(* value of the last valid line with head h among the lines, dflt if none *)
LastValue(lines, h, dflt) ==
    LET valid == SelectSeq(lines, LAMBDA l : l.head = h /\ ValidLine(l))
    IN  IF valid = <<>> THEN dflt
        ELSE IF h = "BootOrder" THEN valid[Len(valid)].tokens
        ELSE valid[Len(valid)].tokens[1]

(* the snapshot made of every valid line of the output *)
Extracted(lines) ==
    LET es == SelectSeq(lines, LAMBDA l : l.head = "Boot")
    IN  [entries      |-> [k \in 1..Len(es) |->
                              [num |-> es[k].tokens[1], active |-> es[k].active]],
         boot_order   |-> LastValue(lines, "BootOrder", <<>>),
         boot_next    |-> LastValue(lines, "BootNext", None),
         boot_current |-> LastValue(lines, "BootCurrent", None),
         timeout      |-> LastValue(lines, "Timeout", None)]

(* C17: parsing is total: parse_efibootmgr raises on no sequence of lines, *)
(* and once every line is consumed the snapshot holds every valid entry    *)
(* and metadata line of the sequence, the lines it cannot parse dropped.   *)
C17_ParsingIsTotal ==
    /\ parse_raised = "none"
    /\ line_index = Len(boot) => parsed_efi = Extracted(boot)

(* C21: remove() of a listed row with a real boot number completes: it     *)
(* raises nothing, boot_remove holds no id twice and no listed row has its *)
(* id in boot_remove (so the plan has at most one delete line per id).     *)
C21_RemoveCompletes ==
    /\ raised # "ValueError"
    /\ NoDup(boot_remove)
    /\ \A i \in 1..Len(rows) : ~InSeq(rows[i].num, boot_remove)

====
